---- MODULE Spec2Model ----
(***************************************************************************)
(* Model of frame_to_video.py (NaturalSortNoPadding): the natural-sort key *)
(* and sort (natural_sort), and the directory-to-video orchestration       *)
(* (create_video_from_frames, process_single_directory).                   *)
(*                                                                         *)
(* A string is a sequence of characters; a character is a one-character    *)
(* TLA+ string, except the two non-ASCII digit characters, written "ar3"   *)
(* (U+0663 ARABIC-INDIC DIGIT THREE) and "sup2" (U+00B2 SUPERSCRIPT TWO).  *)
(***************************************************************************)
EXTENDS Integers, Sequences, FiniteSets, TLC

(* ---------------------------------------------------------------------- *)
(* Characters, as Python's str methods and the re module see them.        *)
(* ---------------------------------------------------------------------- *)

Lowers == <<"a","b","c","d","e","f","g","h","i","j","k","l","m",
            "n","o","p","q","r","s","t","u","v","w","x","y","z">>

Uppers == <<"A","B","C","D","E","F","G","H","I","J","K","L","M",
            "N","O","P","Q","R","S","T","U","V","W","X","Y","Z">>

AsciiDigits == <<"0","1","2","3","4","5","6","7","8","9">>

Range(f) == {f[i] : i \in DOMAIN f}

IndexOf(seq, c) == CHOOSE i \in DOMAIN seq : seq[i] = c

\* The code point of a character: what str comparison compares.
ord(c) ==
    IF c \in Range(AsciiDigits) THEN 47 + IndexOf(AsciiDigits, c)
    ELSE IF c \in Range(Uppers) THEN 64 + IndexOf(Uppers, c)
    ELSE IF c \in Range(Lowers) THEN 96 + IndexOf(Lowers, c)
    ELSE CASE c = "." -> 46
           [] c = "/" -> 47
           [] c = "\\" -> 92
           [] c = "_" -> 95
           [] c = "sup2" -> 178
           [] c = "ar3" -> 1635

\* str.lower() on one character.
lowerChar(c) == IF c \in Range(Uppers) THEN Lowers[IndexOf(Uppers, c)] ELSE c

\* str.lower()
lower(s) == [i \in DOMAIN s |-> lowerChar(s[i])]

\* What the pattern [0-9] matches: the ten ASCII digits only.
IsAsciiDigit(c) == c \in Range(AsciiDigits)

\* str.isdigit() on one character: every character whose Unicode numeric type
\* is Digit or Decimal, which includes "ar3" and "sup2".
IsDigitChar(c) == c \in Range(AsciiDigits) \cup {"ar3", "sup2"}

\* str.isdigit(): non-empty and every character a digit character.
isdigit(s) == Len(s) > 0 /\ \A i \in DOMAIN s : IsDigitChar(s[i])

\* The characters int() accepts (Unicode category Nd): not "sup2".
IsDecimalChar(c) == c \in Range(AsciiDigits) \cup {"ar3"}

DecimalValue(c) == IF c = "ar3" THEN 3 ELSE IndexOf(AsciiDigits, c) - 1

RECURSIVE IntValue(_)
\* int(s) of a string of decimal characters (arbitrary precision).
IntValue(s) ==
    IF Len(s) = 0 THEN 0
    ELSE 10 * IntValue(SubSeq(s, 1, Len(s) - 1)) + DecimalValue(s[Len(s)])

RECURSIVE StrLess(_, _)
\* str < str: lexicographic by code point, a proper prefix is smaller.
StrLess(a, b) ==
    IF Len(b) = 0 THEN FALSE
    ELSE IF Len(a) = 0 THEN TRUE
    ELSE IF a[1] # b[1] THEN ord(a[1]) < ord(b[1])
    ELSE StrLess(Tail(a), Tail(b))

(* ---------------------------------------------------------------------- *)
(* natural_sort: the key (convert, alphanum_key) and sorted().            *)
(* ---------------------------------------------------------------------- *)

RECURSIVE DigitPrefixLen(_)
\* Length of the longest prefix of ASCII digits: one match of [0-9]+.
DigitPrefixLen(s) ==
    IF Len(s) > 0 /\ IsAsciiDigit(s[1]) THEN 1 + DigitPrefixLen(Tail(s)) ELSE 0

RECURSIVE TextPrefixLen(_)
\* Length of the prefix before the first match of [0-9]+.
TextPrefixLen(s) ==
    IF Len(s) > 0 /\ ~IsAsciiDigit(s[1]) THEN 1 + TextPrefixLen(Tail(s)) ELSE 0

RECURSIVE re_split(_)
\* re.split('([0-9]+)', s): the pieces between the digit runs and, the group
\* being a capturing one, the digit runs themselves, in order.
re_split(s) ==
    LET n == TextPrefixLen(s) IN
    IF n = Len(s) THEN <<s>>
    ELSE LET rest == SubSeq(s, n + 1, Len(s))
             m    == DigitPrefixLen(rest)
         IN  <<SubSeq(s, 1, n), SubSeq(rest, 1, m)>>
                 \o re_split(SubSeq(rest, m + 1, Len(rest)))

IntTok(n) == [t |-> "int", n |-> n, s |-> <<>>]
StrTok(s) == [t |-> "str", n |-> 0, s |-> s]
ValueErrorTok == [t |-> "ValueError", n |-> 0, s |-> <<>>]

\* convert: int(text) if text.isdigit() else text.lower(). int() raises
\* ValueError on a digit character that is not a decimal one.
convert(text) ==
    IF isdigit(text)
    THEN IF \A i \in DOMAIN text : IsDecimalChar(text[i])
         THEN IntTok(IntValue(text))
         ELSE ValueErrorTok
    ELSE StrTok(lower(text))

\* alphanum_key: the converted pieces of the split name.
alphanum_key(key) == LET c == re_split(key) IN [i \in DOMAIN c |-> convert(c[i])]

KeyRaises(k) == \E i \in DOMAIN k : k[i].t = "ValueError"

\* x < y on two key elements: "true", "false", or "TypeError" when one is an
\* int and the other a str.
TokLess(x, y) ==
    IF x.t # y.t THEN "TypeError"
    ELSE IF x.t = "int" THEN (IF x.n < y.n THEN "true" ELSE "false")
    ELSE (IF StrLess(x.s, y.s) THEN "true" ELSE "false")

RECURSIVE KeyLess(_, _)
\* list < list: the first pair of unequal elements decides by <; with none,
\* the shorter list is the smaller.
KeyLess(k1, k2) ==
    IF Len(k2) = 0 THEN "false"
    ELSE IF Len(k1) = 0 THEN "true"
    ELSE IF k1[1] # k2[1] THEN TokLess(k1[1], k2[1])
    ELSE KeyLess(Tail(k1), Tail(k2))

(* sorted(file_list, key=alphanum_key): list.sort on the keys. For a list  *)
(* shorter than 64 elements CPython finds the initial run (count_run),     *)
(* reverses it if strictly descending, and inserts every further element   *)
(* by binary search (binarysort). A comparison that raises ends the sort.  *)

Item(name) == [name |-> name, key |-> alphanum_key(name)]

ISLT(x, y) == KeyLess(x.key, y.key)

RECURSIVE RunLen(_, _, _)
\* count_run from element i on: the run goes on while a[i] < a[i-1] holds
\* (descending) or fails (ascending).
RunLen(a, i, desc) ==
    IF i > Len(a) THEN [n |-> i - 1, err |-> FALSE]
    ELSE LET c == ISLT(a[i], a[i - 1]) IN
         IF c = "TypeError" THEN [n |-> 0, err |-> TRUE]
         ELSE IF (c = "true") = desc THEN RunLen(a, i + 1, desc)
         ELSE [n |-> i - 1, err |-> FALSE]

Reverse(s) == [i \in DOMAIN s |-> s[Len(s) + 1 - i]]

RECURSIVE BinSearch(_, _, _, _)
\* binarysort's search of pivot's place in a[l..r) (0-based): the leftmost
\* place after every element that is not greater than pivot; -1 on TypeError.
BinSearch(a, pivot, l, r) ==
    LET p == l + ((r - l) \div 2)
        c == ISLT(pivot, a[p + 1])
    IN  IF c = "TypeError" THEN -1
        ELSE LET l2 == IF c = "true" THEN l ELSE p + 1
                 r2 == IF c = "true" THEN p ELSE r
             IN  IF l2 < r2 THEN BinSearch(a, pivot, l2, r2) ELSE l2

RECURSIVE BinarySort(_, _)
\* binarysort: a[1..k-1] is sorted; insert a[k], then the rest.
BinarySort(a, k) ==
    IF k > Len(a) THEN [raised |-> "none", value |-> a]
    ELSE LET pos == BinSearch(a, a[k], 0, k - 1) IN
         IF pos = -1 THEN [raised |-> "TypeError", value |-> <<>>]
         ELSE BinarySort(SubSeq(a, 1, pos) \o <<a[k]>> \o SubSeq(a, pos + 1, k - 1)
                             \o SubSeq(a, k + 1, Len(a)), k + 1)

\* list.sort
ListSort(a) ==
    IF Len(a) < 2 THEN [raised |-> "none", value |-> a]
    ELSE LET desc == ISLT(a[2], a[1]) IN
         IF desc = "TypeError" THEN [raised |-> "TypeError", value |-> <<>>]
         ELSE LET run == RunLen(a, 3, desc = "true") IN
              IF run.err THEN [raised |-> "TypeError", value |-> <<>>]
              ELSE LET head == SubSeq(a, 1, run.n)
                       b == (IF desc = "true" THEN Reverse(head) ELSE head)
                                \o SubSeq(a, run.n + 1, Len(a))
                   IN  BinarySort(b, run.n + 1)

natural_sort_reversed_input(file_list) ==
    LET items == [i \in DOMAIN file_list |-> Item(file_list[Len(file_list) + 1 - i])] IN
    IF \E i \in DOMAIN items : KeyRaises(items[i].key)
    THEN [raised |-> "ValueError", value |-> <<>>]
    ELSE LET r == ListSort(items) IN
         [raised |-> r.raised, value |-> [i \in DOMAIN r.value |-> r.value[i].name]]

\* natural_sort: every key is built first (a ValueError ends the call), then
\* the list is sorted on the keys; the result is the names in key order.
natural_sort(file_list) ==
    LET items == [i \in DOMAIN file_list |-> Item(file_list[i])] IN
    IF \E i \in DOMAIN items : KeyRaises(items[i].key)
    THEN [raised |-> "ValueError", value |-> <<>>]
    ELSE LET r == ListSort(items) IN
         [raised |-> r.raised, value |-> [i \in DOMAIN r.value |-> r.value[i].name]]

(* ---------------------------------------------------------------------- *)
(* Strings and paths used by process_single_directory.                    *)
(* ---------------------------------------------------------------------- *)

Ext_mp4  == <<".","m","p","4">>
Ext_png  == <<".","p","n","g">>
Ext_jpg  == <<".","j","p","g">>
Ext_jpeg == <<".","j","p","e","g">>
FramesTxt == <<"_","f","r","a","m","e","s",".","t","x","t">>

\* str.endswith
endswith(str, suffix) ==
    Len(str) >= Len(suffix)
    /\ SubSeq(str, Len(str) - Len(suffix) + 1, Len(str)) = suffix

\* f.lower().endswith(('.png', '.jpg', '.jpeg'))
IsImageName(f) ==
    LET l == lower(f) IN
    endswith(l, Ext_png) \/ endswith(l, Ext_jpg) \/ endswith(l, Ext_jpeg)

RECURSIVE rstrip_seps(_)
\* frames_path.rstrip("/\\")
rstrip_seps(path) ==
    IF Len(path) > 0 /\ path[Len(path)] \in {"/", "\\"}
    THEN rstrip_seps(SubSeq(path, 1, Len(path) - 1))
    ELSE path

RECURSIVE basename(_)
\* os.path.basename: what follows the last "/".
basename(path) ==
    IF \E i \in DOMAIN path : path[i] = "/"
    THEN basename(Tail(path))
    ELSE path

RECURSIVE remove_all(_, _)
\* str.replace(old, ''): every occurrence of old, leftmost first and not
\* overlapping, is removed, wherever it stands in the string.
remove_all(str, old) ==
    IF Len(str) < Len(old) THEN str
    ELSE IF SubSeq(str, 1, Len(old)) = old
         THEN remove_all(SubSeq(str, Len(old) + 1, Len(str)), old)
         ELSE <<str[1]>> \o remove_all(Tail(str), old)

\* os.path.join of two components.
join(a, b) ==
    IF Len(b) > 0 /\ b[1] = "/" THEN b
    ELSE IF Len(a) = 0 \/ a[Len(a)] = "/" THEN a \o b
    ELSE a \o <<"/">> \o b

(* ---------------------------------------------------------------------- *)
(* Inputs: the arguments and the file system the program is started on.   *)
(* ---------------------------------------------------------------------- *)

\* The longest natural_sort input list and the longest listing of the input
\* directory explored.
MaxList == 2
MaxEntries == 2

\* A directory entry as os.listdir and os.path.isdir see it.
File(name) == [name |-> name, isdir |-> FALSE]
Dir(name)  == [name |-> name, isdir |-> TRUE]

F_f2_png     == File(<<"f","2",".","p","n","g">>)
F_f10_PNG    == File(<<"f","1","0",".","P","N","G">>)
F_a_jpg      == File(<<"a",".","j","p","g">>)
F_readme_txt == File(<<"r","e","a","d","m","e",".","t","x","t">>)
F_ar3_2_png  == File(<<"ar3","2",".","p","n","g">>)
D_d_jpeg     == Dir(<<"d",".","j","p","e","g">>)
D_shot2      == Dir(<<"s","h","o","t","2">>)
D_shot10     == Dir(<<"s","h","o","t","1","0">>)
D_shot2_mp4  == Dir(<<"s","h","o","t","2",".","m","p","4">>)

\* What a directory of frames may hold.
FrameListings ==
    { <<>>,
      <<F_readme_txt>>,
      <<F_f2_png>>,
      <<F_f10_PNG, F_f2_png>>,
      <<F_f2_png, F_readme_txt, F_a_jpg>>,
      <<D_d_jpeg, F_f2_png>>,
      <<F_ar3_2_png, F_f2_png>> }

SeqsNoRep(E, n) ==
    UNION { {q \in [1..k -> E] : \A i, j \in 1..k : i # j => q[i] # q[j]}
            : k \in 0..n }

\* What the input directory may hold: frames, or subdirectories of frames
\* (and a stray file) in any listing order.
RootEntries == {D_shot10, D_shot2, D_shot2_mp4, F_readme_txt}

RootListings == FrameListings \cup SeqsNoRep(RootEntries, MaxEntries)

FramesPaths == { <<"i","n">>, <<"i","n","/","v",".","m","p","4","/">> }

OutputPath == <<"o","u","t">>

\* args.name: absent (None), or the string given with -n.
NoName == [given |-> FALSE, name |-> <<>>]
Name(n) == [given |-> TRUE, name |-> n]

OutputNames ==
    { NoName,
      Name(<<"c","l","i","p">>),
      Name(<<"c","l","i","p",".","m","p","4">>),
      Name(<<"a",".","m","p","4","b">>) }

\* args.fps: any int; 20 is the default.
FpsValues == {-1, 0, 20}

\* The names natural_sort is explored on: text, one digit run, text.
Prefixes == {<<>>, <<"a">>, <<"A">>, <<"ar3">>, <<"sup2">>}
Runs     == {<<>>, <<"2">>, <<"1","0">>, <<"0","2">>}
Suffixes == {<<>>, <<"a">>, <<"ar3">>}
SortNames == {p \o r \o x : p \in Prefixes, r \in Runs, x \in Suffixes}

(* ---------------------------------------------------------------------- *)
(* State.                                                                 *)
(* ---------------------------------------------------------------------- *)

VARIABLES
    pc,              \* where create_video_from_frames stands
    frames_path,     \* its arguments
    output_filename,
    fps,
    recursive,
    root_listing,    \* os.listdir(frames_path) with each entry's kind
    folders,         \* the subdirectories found (line 67)
    attempts,        \* frames_path of every process_single_directory call
    outcomes,        \* how each of these calls ended
    out_files,       \* the files present in the output directory
    videos,          \* which call wrote each video that is present
    overwrites,      \* videos encoded over a video of the same invocation
    last,            \* the locals of the last process_single_directory call
    scanned,         \* the directories listed so far
    list_writes,     \* the frame-list files created so far
    encoder_calls,   \* the encoder runs so far
    file_list,       \* natural_sort's argument
    sort_result      \* and what the call gave

vars == <<pc, frames_path, output_filename, fps, recursive, root_listing,
          folders, attempts, outcomes, out_files, videos, overwrites, last,
          scanned, list_writes, encoder_calls, file_list, sort_result>>

argVars == <<frames_path, output_filename, fps, recursive, root_listing>>

sortVars == <<file_list, sort_result>>

runVars == <<pc, folders, attempts, outcomes, out_files, videos, overwrites,
             last, scanned, list_writes, encoder_calls>>

NotRun == [raised |-> "notrun", value |-> <<>>]

NoCall ==
    [ frames_path |-> <<>>, output_filename |-> <<>>, base_name |-> <<>>,
      output_video_path |-> <<>>, list_file_path |-> <<>>, listing |-> <<>>,
      frame_files |-> <<>>, sorted_frames |-> <<>>, edit_list |-> <<>>,
      list_created |-> FALSE, outcome |-> "none", raised |-> "none" ]

(* ---------------------------------------------------------------------- *)
(* process_single_directory, as one step: the call from its entry to its  *)
(* return or to the exception that leaves it. listing is what os.listdir  *)
(* gives for path; wr says whether writing the frame list succeeds ("ok")  *)
(* or raises after open() created the file ("raise"); enc is the encoder's *)
(* run: exit status zero ("rc0"), non-zero ("rc1"), or subprocess.run      *)
(* raising because the encoder cannot be started ("raise").                *)
(* ---------------------------------------------------------------------- *)

WriteOutcomes == {"ok", "raise"}
EncoderOutcomes == {"rc0", "rc1", "raise"}

EntryNames(listing) == [i \in DOMAIN listing |-> listing[i].name]

\* Lines 123-160, with the names resolved and the frames sorted.
PsdEncode(path, name, base_name, listing, frame_files, sorted_frames, wr, enc) ==
    LET output_video_path == join(OutputPath, base_name \o Ext_mp4)
        list_file_path == join(OutputPath, base_name \o FramesTxt)
        edit_list == [i \in DOMAIN sorted_frames |->
                         [file |-> join(path, sorted_frames[i]), per_second |-> fps]]
        command == [input |-> list_file_path, output |-> output_video_path, r |-> fps]
        listed == [ frames_path |-> path, output_filename |-> name,
                    base_name |-> base_name,
                    output_video_path |-> output_video_path,
                    list_file_path |-> list_file_path, listing |-> listing,
                    frame_files |-> frame_files, sorted_frames |-> sorted_frames,
                    edit_list |-> <<>>, list_created |-> FALSE,
                    outcome |-> "none", raised |-> "none" ]
        exists == out_files \cup {list_file_path}
        created == list_writes \cup {list_file_path}
    IN
    IF fps = 0
    THEN \* line 125: 1.0 / fps
         [ call |-> [listed EXCEPT !.outcome = "raised",
                                   !.raised = "ZeroDivisionError"],
           out_files |-> out_files, videos |-> videos, overwritten |-> {},
           list_writes |-> list_writes, encoder_calls |-> encoder_calls ]
    ELSE IF wr = "raise"
    THEN \* lines 127-131: the file exists, a write raises
         [ call |-> [listed EXCEPT !.list_created = TRUE, !.outcome = "raised",
                                   !.raised = "OSError"],
           out_files |-> exists, videos |-> videos, overwritten |-> {},
           list_writes |-> created, encoder_calls |-> encoder_calls ]
    ELSE IF enc = "raise"
    THEN \* lines 147-151: subprocess.run raises, line 154 is not reached
         [ call |-> [listed EXCEPT !.edit_list = edit_list, !.list_created = TRUE,
                                   !.outcome = "raised",
                                   !.raised = "FileNotFoundError"],
           out_files |-> exists, videos |-> videos, overwritten |-> {},
           list_writes |-> created, encoder_calls |-> encoder_calls ]
    ELSE IF enc = "rc1"
    THEN \* lines 154, 158-160: the list is removed, the failure reported
         [ call |-> [listed EXCEPT !.edit_list = edit_list, !.list_created = TRUE,
                                   !.outcome = "encoder_error"],
           out_files |-> out_files \ {list_file_path},
           videos |-> videos, overwritten |-> {},
           list_writes |-> created,
           encoder_calls |-> encoder_calls \cup {command} ]
    ELSE \* lines 154-157: ffmpeg -y wrote output_video_path over whatever was there
         [ call |-> [listed EXCEPT !.edit_list = edit_list, !.list_created = TRUE,
                                   !.outcome = "created"],
           out_files |-> (out_files \ {list_file_path}) \cup {output_video_path},
           videos |-> {v \in videos : v.path # output_video_path}
                          \cup {[path |-> output_video_path, src |-> path]},
           overwritten |-> {[path |-> output_video_path, first |-> v.src, second |-> path]
                               : v \in {w \in videos : w.path = output_video_path}},
           list_writes |-> created,
           encoder_calls |-> encoder_calls \cup {command} ]

\* Lines 114-121, with the names resolved: the scan, the filter and the sort.
PsdScan(path, name, base_name, listing, frame_files, sorted, wr, enc) ==
    LET call == [ frames_path |-> path, output_filename |-> name,
                  base_name |-> base_name,
                  output_video_path |-> join(OutputPath, base_name \o Ext_mp4),
                  list_file_path |-> <<>>, listing |-> listing,
                  frame_files |-> frame_files, sorted_frames |-> <<>>,
                  edit_list |-> <<>>, list_created |-> FALSE,
                  outcome |-> IF frame_files = <<>> THEN "no_images" ELSE "raised",
                  raised |-> IF frame_files = <<>> THEN "none" ELSE sorted.raised ]
    IN
    IF frame_files = <<>> \/ sorted.raised # "none"
    THEN \* lines 117-119: nothing to encode; or line 121: natural_sort raises
         [ call |-> call,
           out_files |-> out_files, videos |-> videos, overwritten |-> {},
           list_writes |-> list_writes, encoder_calls |-> encoder_calls ]
    ELSE PsdEncode(path, name, base_name, listing, frame_files, sorted.value, wr, enc)

\* Lines 102-107: the output name, given or the directory's own, without ".mp4".
PsdName(path, given) ==
    IF given.given /\ given.name # <<>>
    THEN given.name
    ELSE basename(rstrip_seps(path))

FrameFiles(listing) == SelectSeq(EntryNames(listing), IsImageName)

Psd(path, given, listing, wr, enc) ==
    PsdScan(path, PsdName(path, given), remove_all(PsdName(path, given), Ext_mp4),
            listing, FrameFiles(listing), natural_sort(FrameFiles(listing)), wr, enc)

\* The state after the call whose result is R.
AfterPsd(R, path) ==
    /\ last' = R.call
    /\ out_files' = R.out_files
    /\ videos' = R.videos
    /\ overwrites' = overwrites \cup R.overwritten
    /\ list_writes' = R.list_writes
    /\ encoder_calls' = R.encoder_calls
    /\ attempts' = Append(attempts, path)
    /\ outcomes' = Append(outcomes, R.call.outcome)

(* ---------------------------------------------------------------------- *)
(* create_video_from_frames.                                              *)
(* ---------------------------------------------------------------------- *)

IsDirEntry(e) == e.isdir

FoldersOfSorted(listing) ==
    natural_sort(EntryNames(SelectSeq(listing, IsDirEntry))).value

\* Line 67: the entries that are directories, in listing order.
FoldersOf(listing) == EntryNames(SelectSeq(listing, IsDirEntry))

LoopPcNoCatch(outcome) == IF outcome = "raised" THEN "crashed" ELSE "loop"

\* Lines 73-77: an exception of a folder's call is caught and printed, and
\* the loop goes on.
LoopPc(outcome) == "loop"

\* Lines 78-80: one call on frames_path; an exception leaves the program.
StartSingle ==
    /\ pc = "start"
    /\ ~recursive
    /\ \E wr \in WriteOutcomes, enc \in EncoderOutcomes :
          LET R == Psd(frames_path, output_filename, root_listing, wr, enc) IN
          /\ AfterPsd(R, frames_path)
          /\ pc' = IF R.call.outcome = "raised" THEN "crashed" ELSE "report"
    /\ scanned' = scanned \cup {frames_path}
    /\ UNCHANGED <<folders, argVars, sortVars>>

\* Lines 66-70: recursive, no subdirectory: frames_path itself is processed,
\* under its own name.
StartRecursiveNoFolders ==
    /\ pc = "start"
    /\ recursive
    /\ FoldersOf(root_listing) = <<>>
    /\ \E wr \in WriteOutcomes, enc \in EncoderOutcomes :
          LET R == Psd(frames_path, NoName, root_listing, wr, enc) IN
          /\ AfterPsd(R, frames_path)
          /\ pc' = IF R.call.outcome = "raised" THEN "crashed" ELSE "report"
    /\ scanned' = scanned \cup {frames_path}
    /\ UNCHANGED <<folders, argVars, sortVars>>

\* Lines 66-67, 71: recursive, with subdirectories: the loop starts.
StartRecursiveLoop ==
    /\ pc = "start"
    /\ recursive
    /\ FoldersOf(root_listing) # <<>>
    /\ folders' = FoldersOf(root_listing)
    /\ scanned' = scanned \cup {frames_path}
    /\ pc' = "loop"
    /\ UNCHANGED <<attempts, outcomes, out_files, videos, overwrites, last,
                   list_writes, encoder_calls, argVars, sortVars>>

\* Lines 72-77: one iteration of the loop, on the next folder.
ProcessFolder ==
    /\ pc = "loop"
    /\ Len(attempts) < Len(folders)
    /\ LET folder == folders[Len(attempts) + 1]
           folder_frames_path == join(frames_path, folder)
       IN  /\ \E listing \in FrameListings, wr \in WriteOutcomes,
                 enc \in EncoderOutcomes :
                  LET R == Psd(folder_frames_path, Name(folder), listing, wr, enc) IN
                  /\ AfterPsd(R, folder_frames_path)
                  /\ pc' = LoopPc(R.call.outcome)
           /\ scanned' = scanned \cup {folder_frames_path}
    /\ UNCHANGED <<folders, argVars, sortVars>>

\* Line 82: print("All videos have been processed!")
Report ==
    /\ \/ pc = "report"
       \/ pc = "loop" /\ Len(attempts) = Len(folders)
    /\ pc' = "done"
    /\ UNCHANGED <<folders, attempts, outcomes, out_files, videos, overwrites,
                   last, scanned, list_writes, encoder_calls, argVars, sortVars>>

\* main: the arguments as parsed, on an output directory that holds nothing
\* of an earlier run. With --recursive the name given with -n is not read
\* (lines 70 and 75 pass None and the folder), so it is left absent.
Init ==
    /\ pc = "start"
    /\ frames_path \in FramesPaths
    /\ recursive \in BOOLEAN
    /\ output_filename \in (IF recursive THEN {NoName} ELSE OutputNames)
    /\ fps \in FpsValues
    /\ root_listing \in RootListings
    /\ folders = <<>>
    /\ attempts = <<>>
    /\ outcomes = <<>>
    /\ out_files = {}
    /\ videos = {}
    /\ overwrites = {}
    /\ last = NoCall
    /\ scanned = {}
    /\ list_writes = {}
    /\ encoder_calls = {}
    /\ file_list = <<>>
    /\ sort_result = NotRun

Next ==
    \/ StartSingle
    \/ StartRecursiveNoFolders
    \/ StartRecursiveLoop
    \/ ProcessFolder
    \/ Report

Spec == Init /\ [][Next]_vars

(* ---------------------------------------------------------------------- *)
(* natural_sort alone: a list of names is built, and sorted.              *)
(* ---------------------------------------------------------------------- *)

SortInit ==
    /\ pc = "idle"
    /\ frames_path = <<>>
    /\ recursive = FALSE
    /\ output_filename = NoName
    /\ fps = 20
    /\ root_listing = <<>>
    /\ folders = <<>>
    /\ attempts = <<>>
    /\ outcomes = <<>>
    /\ out_files = {}
    /\ videos = {}
    /\ overwrites = {}
    /\ last = NoCall
    /\ scanned = {}
    /\ list_writes = {}
    /\ encoder_calls = {}
    /\ file_list = <<>>
    /\ sort_result = NotRun

AppendName ==
    /\ Len(file_list) < MaxList
    /\ \E n \in SortNames : file_list' = Append(file_list, n)
    /\ sort_result' = NotRun
    /\ UNCHANGED <<runVars, argVars>>

CallNaturalSort ==
    /\ sort_result = NotRun
    /\ sort_result' = natural_sort(file_list)
    /\ UNCHANGED <<file_list, runVars, argVars>>

SortNext == AppendName \/ CallNaturalSort

SpecSort == SortInit /\ [][SortNext]_vars

(* ---------------------------------------------------------------------- *)
(* Properties.                                                            *)
(* ---------------------------------------------------------------------- *)

Keys(names) == [i \in DOMAIN names |-> alphanum_key(names[i])]

Distinct(q) == \A i, j \in DOMAIN q : i # j => q[i] # q[j]

Perms(q) == {[i \in DOMAIN q |-> q[f[i]]] : f \in Permutations(DOMAIN q)}

AllAsciiDigits(r) == Len(r) > 0 /\ \A i \in DOMAIN r : IsAsciiDigit(r[i])

\* The ways x and y are the same text around one (maximal) digit run each:
\* the text before ends at i, the runs at j in x and at k in y.
RunSplits(x, y) ==
    { d \in (0..Len(x)) \X (1..Len(x)) \X (1..Len(y)) :
        /\ d[1] < d[2] /\ d[1] < d[3]
        /\ SubSeq(x, 1, d[1]) = SubSeq(y, 1, d[1])
        /\ SubSeq(x, d[2] + 1, Len(x)) = SubSeq(y, d[3] + 1, Len(y))
        /\ AllAsciiDigits(SubSeq(x, d[1] + 1, d[2]))
        /\ AllAsciiDigits(SubSeq(y, d[1] + 1, d[3]))
        /\ (d[1] = 0 \/ ~IsAsciiDigit(x[d[1]]))
        /\ (d[2] = Len(x) \/ ~IsAsciiDigit(x[d[2] + 1])) }

RunValue(x, from, to) == IntValue(SubSeq(x, from + 1, to))

\* C1: of two names that are the same text around one digit run each,
\* natural_sort puts the one whose run has the smaller integer value first,
\* whatever the input order and the number of digits.
C1_SmallerDigitRunFirst ==
    (sort_result # NotRun /\ Len(file_list) = 2) =>
        LET x == file_list[1]
            y == file_list[2]
        IN  \A d \in RunSplits(x, y) :
                /\ RunValue(x, d[1], d[2]) < RunValue(y, d[1], d[3]) =>
                       sort_result = [raised |-> "none", value |-> <<x, y>>]
                /\ RunValue(y, d[1], d[3]) < RunValue(x, d[1], d[2]) =>
                       sort_result = [raised |-> "none", value |-> <<y, x>>]

\* C2: building the keys of any names and comparing them never raises:
\* every call of natural_sort returns.
C2_SortNeverRaises ==
    sort_result # NotRun => sort_result.raised = "none"

C4_ListFileRemovedOnEveryExit ==
    (fps > 0 /\ last.list_created) => last.list_file_path \notin out_files

DirCount == Cardinality({i \in DOMAIN root_listing : root_listing[i].isdir})

InBatch == recursive /\ DirCount > 0

\* C5: in recursive mode with at least one subdirectory, no folder's failure
\* ends the invocation; the loop can always go on to the next folder or to
\* the final report; and at the report every immediate subdirectory has been
\* attempted exactly once.
C5_EveryFolderAttemptedOnce ==
    InBatch =>
        /\ pc \in {"start", "loop", "done"}
        /\ pc = "loop" => ENABLED Next
        /\ Len(attempts) <= DirCount
        /\ \A i \in DOMAIN root_listing :
               root_listing[i].isdir =>
                   LET calls == {k \in DOMAIN attempts :
                                    attempts[k] = join(frames_path, root_listing[i].name)}
                   IN  /\ Cardinality(calls) <= 1
                       /\ pc = "done" => Cardinality(calls) = 1

\* The batch is complete, and a folder that raised and a folder whose encoder
\* failed were followed by a folder that was encoded.
C5_Witness_BatchCompletedAfterFailures ==
    /\ InBatch
    /\ fps > 0
    /\ pc = "done"
    /\ Len(outcomes) >= 2
    /\ outcomes[1] \in {"raised", "encoder_error"}
    /\ outcomes[Len(outcomes)] = "created"

\* C6: in recursive mode the subdirectories are processed in natural-sort
\* order of their names, whatever the order of the directory listing (stated
\* for the valid frame rates, fps > 0).
C6_FoldersInNaturalOrder ==
    (InBatch /\ fps > 0) =>
        LET order == natural_sort(EntryNames(SelectSeq(root_listing, IsDirEntry))).value IN
        \A k \in DOMAIN attempts : attempts[k] = join(frames_path, order[k])

\* C6 as amended: in recursive mode the subdirectories are processed in the
\* order in which the directory listing returns them; no sort is applied.
C6_FoldersInListingOrder ==
    InBatch =>
        LET order == SelectSeq(root_listing, IsDirEntry) IN
        \A k \in DOMAIN attempts : attempts[k] = join(frames_path, order[k].name)

\* A batch is complete whose folders were processed in an order that is not
\* the natural-sort order of their names.
C6_Witness_ListingOrderNotNatural ==
    /\ InBatch
    /\ fps > 0
    /\ pc = "done"
    /\ Len(attempts) >= 2
    /\ ~C6_FoldersInNaturalOrder

StripSuffix(str, suffix) ==
    IF endswith(str, suffix) THEN SubSeq(str, 1, Len(str) - Len(suffix)) ELSE str

\* C7: the output file is named by the chosen base name with a trailing
\* ".mp4" removed if present, and nothing else changed, followed by ".mp4"
\* (stated for the valid frame rates, fps > 0).
C7_OnlyTrailingMp4Stripped ==
    (fps > 0 /\ last.outcome # "none") =>
        last.output_video_path
            = join(OutputPath, StripSuffix(last.output_filename, Ext_mp4) \o Ext_mp4)

\* C8: the frame sequence of a directory holds exactly the entries that are
\* files and whose name ends, whatever the case, in .png, .jpg or .jpeg, each
\* once, in natural-sort order (stated for the valid frame rates, fps > 0, and
\* the calls that reached the encoder).
C8_FramesAreTheImageFiles ==
    (fps > 0 /\ last.outcome \in {"created", "encoder_error"}) =>
        LET wanted == {e.name : e \in {x \in Range(last.listing) :
                                          ~x.isdir /\ IsImageName(x.name)}}
            v == last.sorted_frames
        IN  /\ Range(v) = wanted
            /\ Len(v) = Cardinality(wanted)
            /\ \A i, j \in DOMAIN v :
                   i < j => KeyLess(alphanum_key(v[j]), alphanum_key(v[i])) = "false"

\* C9: with fps <= 0 nothing is processed: no directory is listed, no
\* frame-list file is written, the encoder is not run, no directory is
\* attempted and completion is not reported.
C9_InvalidFpsRejected ==
    (pc # "idle" /\ fps <= 0) =>
        /\ scanned = {}
        /\ list_writes = {}
        /\ encoder_calls = {}
        /\ attempts = <<>>
        /\ pc # "done"

\* C10: within one recursive batch no video is encoded over the video of
\* another subdirectory of the batch (stated for the valid frame rates,
\* fps > 0).
C10_NoVideoOverwritten ==
    (recursive /\ fps > 0) => overwrites = {}

====
